---- MODULE Spec2Model ----
(***************************************************************************)
(* A model of libcsv (src/libcsv.go): ingestion of delimited rows into a   *)
(* Collection of Records (New) and the query engine (Collection.Filter     *)
(* with compile, prepare, query and comparator.Compare).                   *)
(*                                                                         *)
(* Go strings are TLA+ strings; a byte of a string is a string of length   *)
(* one.  Indices are Go's (0-based, -1 for "not found") so that the slice  *)
(* arithmetic of the source can be read off the definitions.  A time.Time  *)
(* is its Unix() value (seconds since the epoch, always a UTC midnight).   *)
(***************************************************************************)
EXTENDS Integers, Sequences, FiniteSets, TLC

VARIABLES
    locale,      \* the package variable `locale` (Months, Unicode)
    iter,        \* the order in which range visits the keys of locale.Unicode
    now,         \* what time.Now() answers: [Year, Month]
    rows,        \* the rows the csv reader hands to New, five cells each
    n,           \* New: number of rows consumed so far
    collection,  \* New: the local `collection` being built
    c,           \* the Collection New returned, receiver of Filter
    q,           \* Filter: the query argument
    stack,       \* Filter: the token stack filled by compile
    mem,         \* Filter: the map _mem, canonical key -> Record
    results,     \* Filter: the named result `results`
    shares,      \* Filter: whether results and c are slices of one array
    i,           \* Filter: the loop index over the stack
    ret,         \* Filter: what the call returned, [results, err]
    prev,        \* the outcome of the previous Filter call on c, [q, ret]
    pc           \* where the program stands

vars ==
    <<locale, iter, now, rows, n, collection, c, q, stack, mem, results, shares, i, ret,
      prev, pc>>

-----------------------------------------------------------------------------
(* Bounds of the model.                                                    *)

MaxRows == 2       \* rows per input in the query pools
MaxFormulas == 2   \* formulas per well-formed query
MaxRaw == 4        \* pieces per raw (unstructured) query

-----------------------------------------------------------------------------
(* strings, bytes, strconv                                                 *)

Whitespace == {" ", "\t"}
Digits == {"0", "1", "2", "3", "4", "5", "6", "7", "8", "9"}
LowerAlpha == {"a", "b", "c", "d", "e", "f", "g", "h", "i", "j", "k", "l", "m",
               "n", "o", "p", "q", "r", "s", "t", "u", "v", "w", "x", "y", "z"}

\* str[k], a byte of a Go string
At(str, k) == SubSeq(str, k + 1, k + 1)

\* str[a:b]
Slice(str, a, b) == SubSeq(str, a + 1, b)

\* str[a:]
From(str, a) == SubSeq(str, a + 1, Len(str))

\* strings.IndexRune(str, ch): the first index of ch, or -1
IndexRune(str, ch) ==
    IF \E k \in 0..(Len(str) - 1) : At(str, k) = ch
    THEN CHOOSE k \in 0..(Len(str) - 1) :
            /\ At(str, k) = ch
            /\ \A j \in 0..(k - 1) : At(str, j) # ch
    ELSE -1

\* strings.Count(str, ch) for a one-byte ch
Count(str, ch) == Cardinality({k \in 0..(Len(str) - 1) : At(str, k) = ch})

\* strings.Contains(str, ch) for a one-byte ch
Contains(str, ch) == IndexRune(str, ch) > -1

\* strings.HasPrefix
HasPrefix(str, prefix) ==
    /\ Len(prefix) <= Len(str)
    /\ Slice(str, 0, Len(prefix)) = prefix

RECURSIVE TrimLeft(_)
TrimLeft(str) ==
    IF Len(str) > 0 /\ At(str, 0) \in Whitespace THEN TrimLeft(From(str, 1)) ELSE str

RECURSIVE TrimRight(_)
TrimRight(str) ==
    IF Len(str) > 0 /\ At(str, Len(str) - 1) \in Whitespace
    THEN TrimRight(Slice(str, 0, Len(str) - 1))
    ELSE str

\* strings.TrimSpace, bytes.TrimSpace
TrimSpace(str) == TrimRight(TrimLeft(str))

\* whitespace.ReplaceAllString(str, " "): every run of \s+ becomes one space
RECURSIVE CollapseSpace(_)
CollapseSpace(str) ==
    IF Len(str) = 0 THEN ""
    ELSE IF At(str, 0) \in Whitespace
         THEN " " \o CollapseSpace(TrimLeft(str))
         ELSE At(str, 0) \o CollapseSpace(From(str, 1))

MutClean(s) == CollapseSpace(s)

\* clean(s): whitespace.ReplaceAllString(strings.TrimSpace(s), " ")
clean(s) == CollapseSpace(TrimSpace(s))

\* strings.Split(str, sep), bytes.Split for a one-byte sep: at least one part
RECURSIVE Split(_, _)
Split(str, sep) ==
    LET k == IndexRune(str, sep)
    IN  IF k = -1 THEN <<str>>
        ELSE <<Slice(str, 0, k)>> \o Split(From(str, k + 1), sep)

\* strings.SplitN(str, sep, 2)
SplitN2(str, sep) ==
    LET k == IndexRune(str, sep)
    IN  IF k = -1 THEN <<str>> ELSE <<Slice(str, 0, k), From(str, k + 1)>>

\* strings.ReplaceAll(str, old, new), old non-empty
RECURSIVE ReplaceAll(_, _, _)
ReplaceAll(str, old, new) ==
    IF Len(str) = 0 \/ Len(old) = 0 THEN str
    ELSE IF HasPrefix(str, old)
         THEN new \o ReplaceAll(From(str, Len(old)), old, new)
         ELSE At(str, 0) \o ReplaceAll(From(str, 1), old, new)

UpperSeq == "ABCDEFGHIJKLMNOPQRSTUVWXYZ"
LowerSeq == "abcdefghijklmnopqrstuvwxyz"

LowerByte(ch) ==
    IF \E k \in 0..25 : At(UpperSeq, k) = ch
    THEN At(LowerSeq, CHOOSE k \in 0..25 : At(UpperSeq, k) = ch)
    ELSE ch

\* strings.ToLower, bytes.ToLower
RECURSIVE ToLower(_)
ToLower(str) ==
    IF Len(str) = 0 THEN "" ELSE LowerByte(At(str, 0)) \o ToLower(From(str, 1))

DigitSeq == "0123456789"
DigitVal(ch) == CHOOSE k \in 0..9 : At(DigitSeq, k) = ch

RECURSIVE DigitsValue(_, _)
DigitsValue(str, acc) ==
    IF Len(str) = 0 THEN acc
    ELSE DigitsValue(From(str, 1), acc * 10 + DigitVal(At(str, 0)))

\* the largest magnitude strconv.ParseInt accepts for a bit size; a 64-bit
\* value is held as far as nine decimal digits go
IntLimit(bitSize) ==
    CASE bitSize = 8  -> 127
      [] bitSize = 16 -> 32767
      [] OTHER        -> 999999999

\* a parsed magnitude checked against the range of the bit size
InRange(neg, mag, bitSize) ==
    IF mag > IntLimit(bitSize) + (IF neg THEN 1 ELSE 0)
    THEN [err |-> TRUE, val |-> 0]
    ELSE [err |-> FALSE, val |-> IF neg THEN -mag ELSE mag]

\* the digits of a number after its sign
ParseMagnitude(neg, body, bitSize) ==
    IF Len(body) = 0 \/ Len(body) > 9 \/ \E k \in 0..(Len(body) - 1) : At(body, k) \notin Digits
    THEN [err |-> TRUE, val |-> 0]
    ELSE InRange(neg, DigitsValue(body, 0), bitSize)

\* strconv.ParseInt(str, 10, bitSize): [err, val]
ParseInt(str, bitSize) ==
    ParseMagnitude(Len(str) > 0 /\ At(str, 0) = "-",
                   IF Len(str) > 0 /\ At(str, 0) \in {"+", "-"} THEN From(str, 1) ELSE str,
                   bitSize)

\* fmt's %v of an integer
RECURSIVE NatText(_)
NatText(k) ==
    IF k < 10 THEN At(DigitSeq, k) ELSE NatText(k \div 10) \o At(DigitSeq, k % 10)

Itoa(k) == IF k < 0 THEN "-" \o NatText(-k) ELSE NatText(k)

\* the byte values fmt prints for the bytes a query is written with
ByteCode(ch) ==
    CASE ch = "=" -> 61
      [] ch = ">" -> 62
      [] ch = "<" -> 60
      [] ch = "+" -> 43
      [] ch = "-" -> 45
      [] ch = "*" -> 42
      [] ch = "]" -> 93
      [] ch = ")" -> 41
      [] ch = ";" -> 59
      [] ch = ":" -> 58
      [] ch = "," -> 44
      [] ch = "\"" -> 34
      [] ch = " " -> 32
      [] ch = "(" -> 40
      [] ch = "[" -> 91
      [] ch = "." -> 46
      [] ch = "/" -> 47
      [] ch = "_" -> 95
      [] ch \in Digits -> 48 + DigitVal(ch)
      [] ch \in LowerAlpha -> 97 + (CHOOSE k \in 0..25 : At(LowerSeq, k) = ch)
      [] OTHER -> 0

-----------------------------------------------------------------------------
(* time                                                                    *)

SecondsPerDay == 86400

IsLeap(year) == (year % 4 = 0 /\ year % 100 # 0) \/ year % 400 = 0

DaysIn(month, year) ==
    CASE month = 2 -> IF IsLeap(year) THEN 29 ELSE 28
      [] month \in {4, 6, 9, 11} -> 30
      [] OTHER -> 31

\* days from 1970-01-01 to the civil date, for month in 1..12 and any day
\* (time.Date normalises a day past the month's end into the next month)
DaysFromCivil(year, month, day) ==
    LET y   == IF month <= 2 THEN year - 1 ELSE year
        era == y \div 400
        yoe == y - era * 400
        mp  == IF month > 2 THEN month - 3 ELSE month + 9
        doy == (153 * mp + 2) \div 5 + day - 1
        doe == yoe * 365 + yoe \div 4 - yoe \div 100 + doy
    IN  era * 146097 + doe - 719468

\* time.Date(year, month, day, 0, 0, 0, 0, time.UTC).Unix()
DateUnix(year, month, day) == DaysFromCivil(year, month, day) * SecondsPerDay

\* a parsed year, month and day as a date, if there is such a day
CivilDate(year, month, day) ==
    IF month \in 1..12 /\ day >= 1 /\ day <= DaysIn(month, year)
    THEN [err |-> FALSE, unix |-> DateUnix(year, month, day)]
    ELSE [err |-> TRUE, unix |-> 0]

\* time.Parse(OPT_DATE_LAYOUT, str) with the layout "2006-01-02": [err, unix]
ParseDateLayout(str) ==
    IF /\ Len(str) = 10
       /\ At(str, 4) = "-" /\ At(str, 7) = "-"
       /\ \A k \in {0, 1, 2, 3, 5, 6, 8, 9} : At(str, k) \in Digits
    THEN CivilDate(DigitsValue(Slice(str, 0, 4), 0), DigitsValue(Slice(str, 5, 7), 0),
                   DigitsValue(Slice(str, 8, 10), 0))
    ELSE [err |-> TRUE, unix |-> 0]

-----------------------------------------------------------------------------
(* Record, Collection, New                                                 *)

OPT_SEPARATOR == "+"

\* strconv.ParseInt's and time.Parse's answer as [panic, val]
Must(parsed, val) == [panic |-> parsed.err, val |-> val]

\* mustParseDate(row, index): [panic, val]
MustDate(parsed) == Must(parsed, parsed.unix)

mustParseDate(row, index) == MustDate(ParseDateLayout(clean(row[index + 1])))

\* mustParseAmount(row, index): [panic, val]
MustAmount(parsed) == Must(parsed, parsed.val)

mustParseAmount(row, index) ==
    MustAmount(ParseInt(ReplaceAll(clean(row[index + 1]), ".", ""), 64))

\* Record.String(): the canonical key
RecordString(r) ==
    "[\"" \o r.Sender \o "\",\"" \o r.Receiver \o "\",\"" \o r.Label \o "\","
          \o Itoa(r.Date) \o "," \o Itoa(r.Amount) \o "]"

\* the Record literal New appends
MakeRecord(row, label, date, amount) ==
    [Sender   |-> clean(row[1]),
     Receiver |-> clean(row[2]),
     Label    |-> clean(label),
     Date     |-> date,
     Amount   |-> amount]

\* a sub-item's record put before the records of the sub-items after it
WithItem(rec, rest) ==
    [panic |-> rest.panic, records |-> <<rec>> \o rest.records, acc |-> rest.acc]

\* New's loop over the sub-items of a compound label, items[from..]:
\* [panic, records, acc]
RECURSIVE SubItems(_, _, _, _, _)
RECURSIVE SubItem(_, _, _, _, _, _, _, _)
SubItem(pairs, amount, date, row, items, from, k, acc) ==
    IF amount.panic \/ Len(pairs) < 2 \/ date.panic
    THEN [panic |-> TRUE, records |-> <<>>, acc |-> acc]
    ELSE WithItem(MakeRecord(row, pairs[2], date.val, amount.val * k),
                  SubItems(row, items, from + 1, k, acc + amount.val * k))

SubItemPairs(pairs, row, items, from, k, acc) ==
    SubItem(pairs, mustParseAmount(pairs, 0), mustParseDate(row, 3), row, items, from, k, acc)

SubItems(row, items, from, k, acc) ==
    IF from > Len(items) THEN [panic |-> FALSE, records |-> <<>>, acc |-> acc]
    ELSE SubItemPairs(SplitN2(clean(items[from]), " "), row, items, from, k, acc)

MutAddsUp(sum, acc) == TRUE

\* whether the sum check of a compound row lets the row through
AddsUp(sum, acc) == sum - acc = 0

\* a compound row's records once its sub-items are read
Compound(sum, sub) ==
    IF sum.panic \/ sub.panic \/ ~AddsUp(sum.val, sub.acc)
    THEN [panic |-> TRUE, records |-> <<>>]
    ELSE [panic |-> FALSE, records |-> sub.records]

CompoundRow(row, sum) ==
    Compound(sum, SubItems(row, Split(row[3], OPT_SEPARATOR), 1,
                           IF sum.val < 0 THEN -1 ELSE 1, 0))

\* a plain row's record
Plain(row, date, amount) ==
    IF date.panic \/ amount.panic
    THEN [panic |-> TRUE, records |-> <<>>]
    ELSE [panic |-> FALSE, records |-> <<MakeRecord(row, row[3], date.val, amount.val)>>]

\* one turn of New's loop for one row: [panic, records]
NewRecords(row) ==
    IF Contains(row[3], OPT_SEPARATOR)
    THEN CompoundRow(row, mustParseAmount(row, 4))
    ELSE Plain(row, mustParseDate(row, 3), mustParseAmount(row, 4))

-----------------------------------------------------------------------------
(* Locale                                                                  *)

\* Locale.Month(monthName): index of the first month that starts with it, or -1
Month(lc, monthName) ==
    IF \E k \in 1..Len(lc.Months) : HasPrefix(lc.Months[k], monthName)
    THEN (CHOOSE k \in 1..Len(lc.Months) :
            /\ HasPrefix(lc.Months[k], monthName)
            /\ \A j \in 1..(k - 1) : ~HasPrefix(lc.Months[j], monthName)) - 1
    ELSE -1

\* Locale.Translate(text): the rules of lc.Unicode applied one after the
\* other in the order `order` in which the range loop visits the map's keys
RECURSIVE Translate(_, _, _)
Translate(lc, order, text) ==
    IF Len(order) = 0 THEN text
    ELSE Translate(lc, Tail(order), ReplaceAll(text, Head(order), lc.Unicode[Head(order)]))

-----------------------------------------------------------------------------
(* tokens and compile                                                      *)

_UNION == "+"
_DIFF == "-"
_OP_SQ == "["
_OP_RD == "("
_CL_SQ == "]"
_CL_RD == ")"

\* token.IsFormula
IsFormula(t) == t.class = 1

min(a, b) == IF a < b THEN a ELSE b

\* the first of two indices of which -1 means "not found"
FirstOf(sq, rd) ==
    IF sq > -1 /\ rd > -1 THEN min(sq, rd)
    ELSE IF sq = -1 THEN rd
    ELSE sq

MutBalanced(str) == Count(str, _OP_SQ) = Count(str, _CL_SQ)

\* compile's pre-check: as many opening as closing brackets, of either style
Balanced(str) ==
    Count(str, _OP_RD) + Count(str, _OP_SQ) = Count(str, _CL_RD) + Count(str, _CL_SQ)

\* compile(str, &stack): [stack, err], err = "" for nil
RECURSIVE compile(_, _)
compile(str, stk) ==
    IF Len(str) = 0 THEN [stack |-> stk, err |-> ""]
    ELSE IF Len(stk) = 0 /\ ~Balanced(str)
    THEN [stack |-> stk,
          err |-> "number of opened paranthesis don't match with closed ones"]
    ELSE IF At(str, 0) = _OP_SQ \/ At(str, 0) = _OP_RD
    THEN LET cl == FirstOf(IndexRune(str, _CL_SQ), IndexRune(str, _CL_RD))
         IN  IF cl = -1
             THEN [stack |-> stk,
                   err |-> "formula " \o str \o " does't have a closing parenthesis"]
             ELSE LET flags  == (IF At(str, 0) = _OP_SQ THEN 2 ELSE 0)
                                + (IF At(str, cl) = _CL_SQ THEN 1 ELSE 0)
                      ftoken == [value |-> clean(Slice(str, 1, cl)),
                                 flags |-> flags,
                                 class |-> 1]
                  IN  IF Len(From(str, cl + 1)) > 0
                      THEN compile(From(str, cl + 1), Append(stk, ftoken))
                      ELSE [stack |-> Append(stk, ftoken), err |-> ""]
    ELSE LET op == FirstOf(IndexRune(str, _OP_SQ), IndexRune(str, _OP_RD))
         IN  IF op = -1
             THEN IF IndexRune(str, _CL_SQ) + IndexRune(str, _CL_RD) > -2 /\ Len(stk) > 0
                  THEN [stack |-> stk,
                        err |-> "unsupported nested paranthesis in " \o stk[Len(stk)].value]
                  ELSE [stack |-> stk,
                        err |-> "expected opening parenthesis after operator in " \o str]
             ELSE LET operator == clean(Slice(str, 0, op))
                  IN  IF Len(operator) # 1
                      THEN [stack |-> stk,
                            err |-> "unexpected operation between collections: " \o operator]
                      ELSE compile(From(str, op),
                                   Append(stk, [value |-> operator, flags |-> 0, class |-> 0]))

-----------------------------------------------------------------------------
(* comparators                                                             *)

HEADER_A_SENDER == "a"
HEADER_B_RECEIVER == "b"
HEADER_C_CATEGORY == "c"
HEADER_D_DATE == "d"
HEADER_S_SUM == "s"
HEADER_X_ANYONE == "x"
HEADER_0_BALANCE == "z"

OPERATOR_EQUAL_MATCH == "="
OPERATOR_GREATER_THAN == ">"
OPERATOR_LESS_THAN == "<"

\* the zero value of a comparator's header and operator bytes
ZeroByte == ""

\* nonAlphaNumeric.ReplaceAllString(str, " ")
RECURSIVE ReplaceNonAlphaNumeric(_)
ReplaceNonAlphaNumeric(str) ==
    IF Len(str) = 0 THEN ""
    ELSE (IF At(str, 0) \in LowerAlpha \cup Digits THEN At(str, 0) ELSE " ")
         \o ReplaceNonAlphaNumeric(From(str, 1))

\* doesItMatch(keyword, value): [ok, panic]; the index and slice expressions
\* of the source panic when they are out of range
doesItMatch(keyword, value) ==
    LET lastIndex        == Len(keyword) - 1
        asciiKeyword     == Translate(locale, iter, ToLower(keyword))
        asciiLookupValue == Translate(locale, iter, ToLower(value))
        az09 == TrimSpace(ReplaceNonAlphaNumeric(asciiLookupValue))
    IN  IF Len(asciiKeyword) = 0 THEN [ok |-> FALSE, panic |-> TRUE]
        ELSE IF At(asciiKeyword, 0) = "\""
        THEN IF lastIndex >= Len(asciiKeyword) THEN [ok |-> FALSE, panic |-> TRUE]
             ELSE IF At(asciiKeyword, lastIndex) = "\""
             THEN IF lastIndex < 1
                  THEN [ok |-> FALSE, panic |-> TRUE]
                  ELSE [ok |-> asciiLookupValue = Slice(asciiKeyword, 1, lastIndex),
                        panic |-> FALSE]
             ELSE [ok |-> HasPrefix(asciiLookupValue, asciiKeyword)
                          \/ HasPrefix(az09, asciiKeyword),
                   panic |-> FALSE]
        ELSE [ok |-> HasPrefix(asciiLookupValue, asciiKeyword)
                     \/ HasPrefix(az09, asciiKeyword),
              panic |-> FALSE]

_TEXT_OR_SEP == ","

RECURSIVE MatchAny(_, _, _)
MatchAny(alternatives, from, value) ==
    IF from > Len(alternatives) THEN [ok |-> FALSE, panic |-> FALSE]
    ELSE LET m == doesItMatch(alternatives[from], value)
         IN  IF m.panic \/ m.ok THEN m ELSE MatchAny(alternatives, from + 1, value)

\* comparator.isMatchingText(value): [ok, panic]
isMatchingText(cmp, value) == MatchAny(Split(cmp.bytesValue, _TEXT_OR_SEP), 1, value)

IsMatchingSender(cmp, r) == isMatchingText(cmp, r.Sender)

IsMatchingReceiver(cmp, r) == isMatchingText(cmp, r.Receiver)

IsMatchingSenderOrReceiver(cmp, r) ==
    LET s == isMatchingText(cmp, r.Sender)
    IN  IF s.panic \/ s.ok THEN s ELSE isMatchingText(cmp, r.Receiver)

IsMatchingLabel(cmp, r) == isMatchingText(cmp, r.Label)

IsMatchingDate(cmp, r) ==
    IF cmp.offsetValue > 0
    THEN r.Date >= cmp.numberValue /\ r.Date <= cmp.numberValue + cmp.offsetValue
    ELSE r.Date = cmp.numberValue

IsAfterDate(cmp, r) ==
    IF cmp.intervalScope.isLeftInclusive
    THEN r.Date >= cmp.numberValue
    ELSE r.Date > cmp.numberValue + cmp.offsetValue

IsBeforeDate(cmp, r) ==
    IF cmp.intervalScope.isRightInclusive
    THEN r.Date <= cmp.numberValue + cmp.offsetValue
    ELSE r.Date < cmp.numberValue

\* the absolute amount the amount comparators work on
AbsAmount(r) == IF r.Amount < 0 THEN -r.Amount ELSE r.Amount

IsMatchingAmount(cmp, r) ==
    IF cmp.offsetValue > 0
    THEN AbsAmount(r) >= cmp.numberValue /\ AbsAmount(r) <= cmp.numberValue + cmp.offsetValue
    ELSE AbsAmount(r) = cmp.numberValue

IsGreaterThanAmount(cmp, r) ==
    IF cmp.intervalScope.isLeftInclusive
    THEN AbsAmount(r) >= cmp.numberValue
    ELSE AbsAmount(r) > cmp.numberValue

IsLessThanAmount(cmp, r) ==
    IF cmp.intervalScope.isRightInclusive
    THEN AbsAmount(r) <= cmp.numberValue
    ELSE AbsAmount(r) < cmp.numberValue

HasAscendingAmount(cmp, r) == r.Amount > cmp.numberValue

HasDescendingAmount(cmp, r) == r.Amount < cmp.numberValue

Answer(b) == [ok |-> b, err |-> "", panic |-> FALSE]

Text(m) == [ok |-> m.ok, err |-> "", panic |-> m.panic]

Reject(msg) == [ok |-> FALSE, err |-> msg, panic |-> FALSE]

\* comparator.Compare(r): [ok, err, panic]
Compare(cmp, r) ==
    CASE cmp.header = HEADER_A_SENDER ->
            IF cmp.operator = OPERATOR_EQUAL_MATCH THEN Text(IsMatchingSender(cmp, r))
            ELSE Reject("header a? " \o Itoa(ByteCode(cmp.operator)))
      [] cmp.header = HEADER_B_RECEIVER ->
            IF cmp.operator = OPERATOR_EQUAL_MATCH THEN Text(IsMatchingReceiver(cmp, r))
            ELSE Reject("header b? " \o Itoa(ByteCode(cmp.operator)))
      [] cmp.header = HEADER_C_CATEGORY ->
            IF cmp.operator = OPERATOR_EQUAL_MATCH THEN Text(IsMatchingLabel(cmp, r))
            ELSE Reject("header c? " \o Itoa(ByteCode(cmp.operator)))
      [] cmp.header = HEADER_D_DATE ->
            CASE cmp.operator = OPERATOR_EQUAL_MATCH -> Answer(IsMatchingDate(cmp, r))
              [] cmp.operator = OPERATOR_GREATER_THAN -> Answer(IsAfterDate(cmp, r))
              [] cmp.operator = OPERATOR_LESS_THAN -> Answer(IsBeforeDate(cmp, r))
              [] OTHER -> Reject("header d? " \o Itoa(ByteCode(cmp.operator)))
      [] cmp.header = HEADER_S_SUM ->
            CASE cmp.operator = OPERATOR_EQUAL_MATCH -> Answer(IsMatchingAmount(cmp, r))
              [] cmp.operator = OPERATOR_GREATER_THAN -> Answer(IsGreaterThanAmount(cmp, r))
              [] cmp.operator = OPERATOR_LESS_THAN -> Answer(IsLessThanAmount(cmp, r))
              [] OTHER -> Reject("header s? " \o Itoa(ByteCode(cmp.operator)))
      [] cmp.header = HEADER_X_ANYONE ->
            IF cmp.operator = OPERATOR_EQUAL_MATCH
            THEN Text(IsMatchingSenderOrReceiver(cmp, r))
            ELSE Reject("header x? " \o Itoa(ByteCode(cmp.operator)))
      [] cmp.header = HEADER_0_BALANCE ->
            CASE cmp.operator = OPERATOR_GREATER_THAN -> Answer(HasAscendingAmount(cmp, r))
              [] cmp.operator = OPERATOR_LESS_THAN -> Answer(HasDescendingAmount(cmp, r))
              [] OTHER -> Reject("header z? " \o Itoa(ByteCode(cmp.operator)))
      [] OTHER -> Reject("unsupported header: " \o Itoa(ByteCode(cmp.header)))

-----------------------------------------------------------------------------
(* prepare                                                                 *)

_DELIM == ";"
_MIN_YEAR == 1922

FormulaHeaders == {"x", "z", "a", "b", "c", "d", "s"}
FormulaOperators == {"=", ">", "<"}

\* the first index from k on that holds no whitespace, Len(str) if there is none
RECURSIVE SkipSpace(_, _)
SkipSpace(str, k) ==
    IF k < Len(str) /\ At(str, k) \in Whitespace THEN SkipSpace(str, k + 1) ELSE k

\* whether _FORMULA_REGEX can match with its header at index p
MatchesAt(str, p) ==
    /\ At(str, p) \in FormulaHeaders
    /\ LET j == SkipSpace(str, p + 1)
       IN  j < Len(str) /\ At(str, j) \in FormulaOperators /\ j + 1 < Len(str)

\* _FORMULA_REGEX.FindSubmatch(condition): the leftmost match of
\* \s*([xzabcds]\s*[=><])\s*(.+)\s* as [matched, field, value]
FindSubmatch(condition) ==
    IF \E p \in 0..(Len(condition) - 1) : MatchesAt(condition, p)
    THEN LET p == CHOOSE p \in 0..(Len(condition) - 1) :
                     /\ MatchesAt(condition, p)
                     /\ \A p2 \in 0..(p - 1) : ~MatchesAt(condition, p2)
             j == SkipSpace(condition, p + 1)
             v == SkipSpace(condition, j + 1)
         IN  [matched |-> TRUE,
              field   |-> Slice(condition, p, j + 1),
              value   |-> IF v < Len(condition)
                          THEN From(condition, v)
                          ELSE From(condition, Len(condition) - 1)]
    ELSE [matched |-> FALSE, field |-> "", value |-> ""]

UpperAlpha == {At(UpperSeq, k) : k \in 0..25}
WordBytes == LowerAlpha \cup UpperAlpha \cup Digits \cup {"_"}
DateSeparators == {"/", ".", "-"}

AllIn(str, set) == \A k \in 0..(Len(str) - 1) : At(str, k) \in set

\* the parts of a value that \s+ separates
Fields(str) == Split(CollapseSpace(str), " ")

IsDay(str) == Len(str) \in 1..2 /\ AllIn(str, Digits)
IsMonthName(str) == Len(str) >= 3 /\ AllIn(str, WordBytes)
IsYear(str) == Len(str) = 4 /\ AllIn(str, Digits)

\* the year a month without a year belongs to: last year if the month is
\* still to come this year
InferYear(month) == IF month > now.Month THEN now.Year - 1 ELSE now.Year

Coerced(number, offset) == [err |-> "", numberValue |-> number, offsetValue |-> offset]

Failed(msg) == [err |-> msg, numberValue |-> 0, offsetValue |-> 0]

\* a whole month as a range: its first day and the seconds to its last day
MonthRange(year, month) ==
    Coerced(DateUnix(year, month, 1), (DaysIn(month, year) - 1) * SecondsPerDay)

\* _DATE_REGEX_DD_MM_YYYY as [matched, day, month, year]
NumericDate(str) ==
    IF \E a \in 1..2, b \in 1..2 :
          /\ Len(str) = a + b + 6
          /\ AllIn(Slice(str, 0, a), Digits)
          /\ At(str, a) \in DateSeparators
          /\ AllIn(Slice(str, a + 1, a + 1 + b), Digits)
          /\ At(str, a + 1 + b) \in DateSeparators
          /\ AllIn(From(str, a + b + 2), Digits)
    THEN LET a == CHOOSE a \in 1..2 : At(str, a) \in DateSeparators
             b == Len(str) - a - 6
         IN  [matched |-> TRUE,
              day     |-> Slice(str, 0, a),
              month   |-> Slice(str, a + 1, a + 1 + b),
              year    |-> From(str, a + b + 2)]
    ELSE [matched |-> FALSE, day |-> "", month |-> "", year |-> ""]

\* _DATE_REGEX_YYYY_MM_DD
IsIsoDate(str) ==
    /\ Len(str) = 10
    /\ At(str, 4) = "-" /\ At(str, 7) = "-"
    /\ \A k \in {0, 1, 2, 3, 5, 6, 8, 9} : At(str, k) \in Digits

\* a numeric date checked for range, the same for both numeric layouts
CheckedParts(year, month, day, fullYear, monthOfYear, dayOfMonth) ==
    IF year.err THEN Failed("not a year " \o fullYear)
    ELSE IF month.err THEN Failed("not a month " \o monthOfYear)
    ELSE IF day.err THEN Failed("not a day " \o dayOfMonth)
    ELSE IF day.val >= 1 /\ day.val <= 31 /\ month.val >= 1 /\ month.val <= 12
    THEN Coerced(DateUnix(year.val, month.val, day.val), 0)
    ELSE Coerced(0, 0)

CheckedDate(fullYear, monthOfYear, dayOfMonth) ==
    CheckedParts(ParseInt(fullYear, 16), ParseInt(monthOfYear, 8), ParseInt(dayOfMonth, 8),
                 fullYear, monthOfYear, dayOfMonth)

\* _DATE_REGEX_DD_MONTH: a day and a month name, the year inferred
DayMonth(day, monthIndex, dayOfMonth) ==
    IF day.err THEN Failed("not a day " \o dayOfMonth)
    ELSE IF day.val > 0 /\ day.val < 32 /\ monthIndex > 0
    THEN Coerced(DateUnix(InferYear(monthIndex), monthIndex, day.val), 0)
    ELSE Coerced(0, 0)

\* _DATE_REGEX_DD_MONTH_YYYY: a day, a month name and a year
DayMonthYear(year, day, monthIndex, fullYear, dayOfMonth) ==
    IF year.err THEN Failed("not a year " \o fullYear)
    ELSE IF day.err THEN Failed("not a month " \o dayOfMonth)
    ELSE IF day.val > 0 /\ day.val < 32 /\ monthIndex > 0
    THEN Coerced(DateUnix(year.val, monthIndex, day.val), 0)
    ELSE Coerced(0, 0)

\* _DATE_REGEX_MONTH_YYYY: a month name and a year, a month-long range
MonthYear(year, monthIndex, fullYear) ==
    IF year.err THEN Failed("not a year " \o fullYear)
    ELSE IF monthIndex > 0 THEN MonthRange(year.val, monthIndex)
    ELSE Coerced(0, 0)

\* the last resort: a month name alone, or a year alone
MonthOrYear(monthIndex, year, bytesValue) ==
    IF monthIndex > -1
    THEN MonthRange(InferYear(monthIndex + 1), monthIndex + 1)
    ELSE IF Len(bytesValue) = 4 /\ ~year.err /\ _MIN_YEAR < year.val /\ year.val <= now.Year
    THEN Coerced(DateUnix(year.val, 1, 1), DateUnix(year.val, 12, 31) - DateUnix(year.val, 1, 1))
    ELSE Coerced(0, 0)

NumericParts(num) == CheckedDate(num.year, num.month, num.day)

\* the date layouts tried one after the other on the fields f of the value
DateLayouts(f, bytesValue) ==
    IF Len(f) = 2 /\ IsDay(f[1]) /\ IsMonthName(f[2])
    THEN DayMonth(ParseInt(f[1], 8), Month(locale, f[2]) + 1, f[1])
    ELSE IF Len(f) = 3 /\ IsDay(f[1]) /\ IsMonthName(f[2]) /\ IsYear(f[3])
    THEN DayMonthYear(ParseInt(f[3], 16), ParseInt(f[1], 8), Month(locale, f[2]) + 1,
                      f[3], f[1])
    ELSE IF Len(f) = 2 /\ IsMonthName(f[1]) /\ IsYear(f[2])
    THEN MonthYear(ParseInt(f[2], 16), Month(locale, f[1]) + 1, f[2])
    ELSE IF NumericDate(bytesValue).matched
    THEN NumericParts(NumericDate(bytesValue))
    ELSE IF IsIsoDate(bytesValue)
    THEN CheckedDate(Slice(bytesValue, 0, 4), Slice(bytesValue, 5, 7),
                     Slice(bytesValue, 8, 10))
    ELSE MonthOrYear(Month(locale, bytesValue), ParseInt(bytesValue, 16), bytesValue)

\* prepare, case HEADER_D_DATE: the coercion of a date value
prepareDate(bytesValue) == DateLayouts(Fields(bytesValue), bytesValue)

\* an amount with a comma: the integer left when the comma is taken out
ExactSum(sum, sumText) ==
    IF sum.err THEN Failed("not an amount " \o sumText) ELSE Coerced(sum.val, 0)

\* an amount without a comma: the range from ...00 to ...99
RangeSum(sum, max, sumText, maxText) ==
    IF sum.err THEN Failed("not an amount " \o sumText)
    ELSE IF max.err THEN Failed("not an amount " \o maxText)
    ELSE Coerced(sum.val, max.val - sum.val)

ExactSumText(sumText) == ExactSum(ParseInt(sumText, 64), sumText)

RangeSumText(sumText, maxText) ==
    RangeSum(ParseInt(sumText, 64), ParseInt(maxText, 64), sumText, maxText)

\* prepare, case HEADER_S_SUM: the coercion of an amount value; with a comma
\* the text parsed is the untrimmed `value`
prepareSum(value, bytesValue) ==
    IF Contains(bytesValue, ",")
    THEN ExactSumText(ReplaceAll(value, ",", ""))
    ELSE RangeSumText(bytesValue \o "00", bytesValue \o "99")

\* prepare, case HEADER_0_BALANCE
Balance(val, bytesValue) ==
    IF val.err THEN Failed("not a number " \o bytesValue) ELSE Coerced(val.val, 0)

prepareBalance(bytesValue) == Balance(ParseInt(bytesValue, 32), bytesValue)

\* the comparator of a condition that _FORMULA_REGEX does not match
ZeroComparator(cs) ==
    [header |-> ZeroByte, operator |-> ZeroByte, bytesValue |-> "",
     numberValue |-> 0, offsetValue |-> 0, intervalScope |-> cs]

\* the comparator of a matched condition, its value coerced
Typed(cs, header, operator, bytesValue, coerced) ==
    [err  |-> coerced.err,
     comp |-> [header |-> header, operator |-> operator, bytesValue |-> bytesValue,
               numberValue |-> coerced.numberValue, offsetValue |-> coerced.offsetValue,
               intervalScope |-> cs]]

\* prepare's switch on comp.header
Coerce(cs, header, operator, value, bytesValue) ==
    Typed(cs, header, operator, bytesValue,
          CASE header = HEADER_D_DATE -> prepareDate(bytesValue)
            [] header = HEADER_S_SUM -> prepareSum(value, bytesValue)
            [] header = HEADER_0_BALANCE -> prepareBalance(bytesValue)
            [] OTHER -> Coerced(0, 0))

FieldAndValue(cs, field, value) ==
    Coerce(cs, At(field, 0), At(field, 1), value, TrimSpace(value))

Matched(cs, tokens) ==
    IF ~tokens.matched
    THEN [err |-> "", comp |-> ZeroComparator(cs)]
    ELSE FieldAndValue(cs, ReplaceAll(tokens.field, " ", ""), ToLower(tokens.value))

\* the comparator prepare builds for one non-empty condition: [err, comp]
prepareCondition(cs, condition) == Matched(cs, FindSubmatch(condition))

MutStopsAt(condition) == FALSE

\* whether prepare's loop stops at a condition
StopsAt(condition) == Len(condition) = 0

\* a comparator put before the comparators of the conditions after it
WithComparator(comp, rest) ==
    [filters |-> IF rest.err # "" THEN <<>> ELSE <<comp>> \o rest.filters, err |-> rest.err]

\* prepare's loop from condition `from` on: [filters, err]
RECURSIVE prepareFrom(_, _, _)
RECURSIVE Prepared(_, _, _, _)
Prepared(one, cs, conditions, from) ==
    IF one.err # "" THEN [filters |-> <<>>, err |-> one.err]
    ELSE WithComparator(one.comp, prepareFrom(cs, conditions, from + 1))

prepareFrom(cs, conditions, from) ==
    IF from > Len(conditions) \/ StopsAt(conditions[from])
    THEN [filters |-> <<>>, err |-> ""]
    ELSE Prepared(prepareCondition(cs, conditions[from]), cs, conditions, from)

\* prepare(cs, cleanQuery): [filters, err]
prepare(cs, cleanQuery) == prepareFrom(cs, Split(TrimSpace(cleanQuery), _DELIM), 1)

MutScope(t) == [isLeftInclusive  |-> t.flags % 2 # 0,
                isRightInclusive |-> (t.flags \div 2) % 2 # 0]

\* the scope Filter builds from a formula token's flags
Scope(t) == [isLeftInclusive  |-> (t.flags \div 2) % 2 # 0,
             isRightInclusive |-> t.flags % 2 # 0]

-----------------------------------------------------------------------------
(* query                                                                   *)

\* a record that passed or failed put before what is kept of the records after it
WithRecord(ok, record, rest) ==
    IF rest.panic \/ rest.err # "" THEN rest
    ELSE [out |-> (IF ok THEN <<record>> ELSE <<>>) \o rest.out, err |-> "", panic |-> FALSE]

\* query's loop over the records with filters[0]: [out, err, panic]
RECURSIVE Keep(_, _, _)
RECURSIVE Compared(_, _, _, _)
Compared(cmp, records, from, f) ==
    IF cmp.panic THEN [out |-> <<>>, err |-> "", panic |-> TRUE]
    ELSE IF cmp.err # "" THEN [out |-> <<>>, err |-> cmp.err, panic |-> FALSE]
    ELSE WithRecord(cmp.ok, records[from], Keep(records, from + 1, f))

Keep(records, from, f) ==
    IF from > Len(records) THEN [out |-> <<>>, err |-> "", panic |-> FALSE]
    ELSE Compared(Compare(f, records[from]), records, from, f)

\* whether query returns its records without looking at the filters
NothingToDo(records, filters) == Len(records) = 0 \/ Len(filters) = 0

\* query(records, filters): [out, err, panic]
RECURSIVE query(_, _)
RECURSIVE Narrowed(_, _)
Narrowed(newRecords, filters) ==
    IF newRecords.panic \/ newRecords.err # "" THEN newRecords
    ELSE query(newRecords.out, Tail(filters))

query(records, filters) ==
    IF NothingToDo(records, filters)
    THEN [out |-> records, err |-> "", panic |-> FALSE]
    ELSE Narrowed(Keep(records, 1, Head(filters)), filters)

-----------------------------------------------------------------------------
(* Collection.Filter                                                       *)

\* fmt's %v of a []byte: its bytes in decimal between brackets
RECURSIVE ByteList(_)
ByteList(str) ==
    IF Len(str) = 0 THEN ""
    ELSE Itoa(ByteCode(At(str, 0)))
         \o (IF Len(str) > 1 THEN " " ELSE "") \o ByteList(From(str, 1))

BytesText(str) == "[" \o ByteList(str) \o "]"

\* _mem[k] = r
MemPut(m, k, r) == [x \in DOMAIN m \cup {k} |-> IF x = k THEN r ELSE m[x]]

\* delete(_mem, k) for every k of keys
MemDelete(m, keys) == [x \in DOMAIN m \ keys |-> m[x]]

\* the first formula's loop: every record of out goes into results and _mem
RECURSIVE StageAll(_, _, _, _)
StageAll(res, m, out, from) ==
    IF from > Len(out) THEN [results |-> res, mem |-> m]
    ELSE StageAll(Append(res, out[from]),
                  MemPut(m, RecordString(out[from]), out[from]), out, from + 1)

\* the union loop: a record of out goes in unless its key is in _mem
RECURSIVE StageNew(_, _, _, _)
RECURSIVE StageKey(_, _, _, _, _)
MutStageKey(r2k, res, m, out, from) ==
    StageNew(Append(res, out[from]), MemPut(m, r2k, out[from]), out, from + 1)

StageKey(r2k, res, m, out, from) ==
    IF r2k \in DOMAIN m
    THEN StageNew(res, m, out, from + 1)
    ELSE StageNew(Append(res, out[from]), MemPut(m, r2k, out[from]), out, from + 1)

StageNew(res, m, out, from) ==
    IF from > Len(out) THEN [results |-> res, mem |-> m]
    ELSE StageKey(RecordString(out[from]), res, m, out, from)

\* the one-to-one sequences of the given length over a set
Orders(S, len) == {o \in [1..len -> S] : \A a, b \in 1..len : o[a] = o[b] => a = b}

\* the sequences a range over the map m can build from its values
MapValueOrders(m) ==
    {[k \in 1..Len(order) |-> m[order[k]]] : order \in Orders(DOMAIN m, Cardinality(DOMAIN m))}

MutLess(a, b) == IF a.Date = b.Date THEN a.Amount < b.Amount ELSE a.Date < b.Date

\* the less function handed to sort.SliceStable
Less(a, b) == IF a.Date = b.Date THEN a.Amount < b.Amount ELSE a.Date > b.Date

\* r put behind the last element of a sorted sequence that it is not less than
RECURSIVE InsertStable(_, _)
InsertStable(sorted, r) ==
    IF Len(sorted) = 0 THEN <<r>>
    ELSE IF Less(r, sorted[Len(sorted)])
         THEN Append(InsertStable(SubSeq(sorted, 1, Len(sorted) - 1), r), sorted[Len(sorted)])
         ELSE Append(sorted, r)

\* sort.SliceStable(results, less)
RECURSIVE SliceStable(_)
SliceStable(records) ==
    IF Len(records) = 0 THEN <<>>
    ELSE InsertStable(SliceStable(SubSeq(records, 1, Len(records) - 1)), records[Len(records)])

NoReturn == [results |-> <<>>, err |-> ""]
NoCall == [q |-> "", ret |-> NoReturn, called |-> FALSE]

\* return res, e
Return(res, e) ==
    /\ ret' = [results |-> res, err |-> e]
    /\ pc' = "returned"
    /\ UNCHANGED <<mem, results, shares, i>>

\* a run-time panic unwinds the call
Panic ==
    /\ pc' = "panic"
    /\ UNCHANGED <<ret, mem, results, shares, i>>

MutKeepsArray(own, outShares) == outShares

\* results = append(results, r) for the records r of out: results stays in its
\* own array (or moves to a new one), whatever array out is a slice of
KeepsArray(own, outShares) == own

\* on to the (next) turn of the loop with the results staged
Staged(staged, next, outShares) ==
    /\ results' = staged.results
    /\ shares' = KeepsArray(shares, outShares)
    /\ mem' = staged.mem
    /\ i' = next
    /\ pc' = "loop"
    /\ UNCHANGED ret

\* New, one turn of the loop over the rows read
Made(made) ==
    IF made.panic
    THEN pc' = "panic" /\ UNCHANGED <<n, collection>>
    ELSE /\ collection' = collection \o made.records
         /\ n' = n + 1
         /\ pc' = "new"

NewRow ==
    /\ pc = "new"
    /\ n < Len(rows)
    /\ Made(NewRecords(rows[n + 1]))
    /\ UNCHANGED <<locale, iter, now, rows, c, q, stack, mem, results, shares, i, ret, prev>>

\* New, io.EOF: the collection is returned
NewReturn ==
    /\ pc = "new"
    /\ n = Len(rows)
    /\ c' = collection
    /\ pc' = "ready"
    /\ UNCHANGED <<locale, iter, now, rows, n, collection, q, stack, mem, results, shares, i,
                 ret, prev>>

\* Filter, from the call to the test of the compiled stack
Compiled(compiled) ==
    /\ stack' = compiled.stack
    /\ IF compiled.err # "" THEN Return(<<>>, compiled.err)
       ELSE IF Len(compiled.stack) = 0 THEN Return(c, "")
       ELSE pc' = "first" /\ UNCHANGED <<ret, mem, results, shares, i>>

FilterCompile ==
    /\ pc = "ready"
    /\ Compiled(compile(clean(q), <<>>))
    /\ UNCHANGED <<locale, iter, now, rows, n, collection, c, q, prev>>

\* Filter, the first token: its matches are staged
FirstQueried(out, outShares) ==
    IF out.panic THEN Panic
    ELSE IF out.err # "" THEN Return(<<>>, out.err)
    ELSE Staged(StageAll(<<>>, <<>>, out.out, 1), 1, outShares)

FirstPrepared(filters) ==
    IF filters.err # "" THEN Return(<<>>, filters.err)
    ELSE FirstQueried(query(c, filters.filters), NothingToDo(c, filters.filters))

First(start) ==
    IF IsFormula(start)
    THEN FirstPrepared(prepare(Scope(start), start.value))
    ELSE Return(<<>>, "incorrect query " \o q)

FilterFirst ==
    /\ pc = "first"
    /\ First(stack[1])
    /\ UNCHANGED <<locale, iter, now, rows, n, collection, c, q, stack, prev>>

\* whether the loop may read stack[i] and stack[i+1]
PairInRange(stk, k) == k + 1 < Len(stk)

\* case _UNION: the formula's matches in c that _mem does not hold are added
Union(out, outShares) ==
    IF out.panic THEN Panic
    ELSE IF out.err # "" THEN Return(<<>>, out.err)
    ELSE Staged(StageNew(results, mem, out.out, 1), i + 2, outShares)

\* case _DIFF: the formula's matches in results leave _mem, and results is
\* rebuilt in a new array from a range over _mem
Diff(out) ==
    IF out.panic THEN Panic
    ELSE IF out.err # "" THEN Return(<<>>, out.err)
    ELSE /\ mem' = MemDelete(mem, {RecordString(out.out[k]) : k \in 1..Len(out.out)})
         /\ results' \in MapValueOrders(mem')
         /\ shares' = FALSE
         /\ i' = i + 2
         /\ pc' = "loop"
         /\ UNCHANGED ret

MutUnionOperand(input, current) == current

\* the records a union step queries: the collection, not the results so far
UnionOperand(input, current) == input

StepPrepared(op, filters) ==
    IF filters.err # "" THEN Return(<<>>, filters.err)
    ELSE IF At(op.value, 0) = _UNION THEN Union(query(UnionOperand(c, results), filters.filters),
               NothingToDo(c, filters.filters))
    ELSE IF At(op.value, 0) = _DIFF THEN Diff(query(results, filters.filters))
    ELSE Return(results, "unsupported operator: " \o Itoa(ByteCode(At(op.value, 0))))

Step(op, ls) ==
    IF IsFormula(op)
    THEN Return(results, "incorrect query, missing operation " \o BytesText(op.value))
    ELSE IF ~IsFormula(ls)
    THEN Return(results, "incorrect query, missing formula " \o BytesText(op.value))
    ELSE StepPrepared(op, prepare(Scope(ls), ls.value))

\* Filter, one turn of the loop over the (operator, formula) pairs
FilterStep ==
    /\ pc = "loop"
    /\ i < Len(stack)
    /\ IF PairInRange(stack, i) THEN Step(stack[i + 1], stack[i + 2]) ELSE Panic
    /\ UNCHANGED <<locale, iter, now, rows, n, collection, c, q, stack, prev>>

\* Filter, after the loop: the results are sorted in place and returned
Sorted(sorted) ==
    /\ results' = sorted
    /\ c' = IF shares THEN sorted ELSE c
    /\ ret' = [results |-> sorted, err |-> ""]
    /\ pc' = "returned"

FilterSort ==
    /\ pc = "loop"
    /\ i >= Len(stack)
    /\ Sorted(SliceStable(results))
    /\ UNCHANGED <<locale, iter, now, rows, n, collection, q, stack, mem, shares, i, prev>>

-----------------------------------------------------------------------------
(* The inputs: what is read by New, asked of Filter and set up as locale.  *)

L0 == [Months |-> <<>>, Unicode |-> <<>>]

L1 == [Months  |-> <<"ianuarie", "februarie", "martie", "aprilie", "mai", "iunie", "iulie",
                     "august", "septembrie", "octombrie", "noiembrie", "decembrie">>,
       Unicode |-> [k \in {"a^"} |-> "a"]]

Today == [Year |-> 2020, Month |-> 2]

\* the orders in which a range can visit the keys of lc.Unicode
KeyOrders(lc) == Orders(DOMAIN lc.Unicode, Cardinality(DOMAIN lc.Unicode))

SeqsUpTo(S, len) == UNION {[1..k -> S] : k \in 0..len}

RECURSIVE Concat(_)
Concat(pieces) == IF Len(pieces) = 0 THEN "" ELSE Head(pieces) \o Concat(Tail(pieces))

R1 == <<"al", "bo", "rent", "2019-11-05", "-5.00">>
R2 == <<"bo", "al", "pay", "2019-12-01", "7.00">>
R3 == <<"al", "(shop)", "2.00 jam+3.00 tea", "2019-11-05", "-5.00">>
R4 == <<"bo", "al", "gift", "2019-11-05", "-5.00">>

\* two rows whose cells hold quotes and commas (quoted csv fields)
R5 == <<"a\",\"b", "c", "x", "2019-11-05", "1.00">>
R6 == <<"a", "b\",\"c", "x", "2019-11-05", "1.00">>

QueryRows == {R1, R2, R3, R4}

IngestLabels == {"tea", "2 jam+3 tea", "2 jam + 4 tea", "2jam+3 tea", "7 jam+-2 tea",
                 "0.02 jam+0.03 tea", "5 jam+"}
IngestDates == {"2019-11-05", "2019'11'05"}
IngestAmounts == {"-5", "5", "0.05", "-6", "5x", "0"}

IngestRows ==
    {<<"al", " (shop) ", label, date, amount>> :
        label \in IngestLabels, date \in IngestDates, amount \in IngestAmounts}

Formulas == {"[]", "( )", "[a=al]", "[b=al]", "(x=bo)", "[z<0]", "[s>5]", "(s>5)",
             "[a>al]", "[d:x]", "[b=zz;z=0]", "[c=tea,jam]"}

Operators == {" + ", "-"}

ChainFormulas == {"[a=al]", "[b=al]", "[]"}

\* formula (operator formula)*, at most len formulas
RECURSIVE Chains(_, _)
Chains(F, len) ==
    IF len = 0 THEN {}
    ELSE F \cup {chain \o op \o f : chain \in Chains(F, len - 1), op \in Operators, f \in F}

RawPieces == {"[", "]", "(", ")", "+", " ", "a=al"}

RawQueries == {Concat(pieces) : pieces \in SeqsUpTo(RawPieces, MaxRaw)}

ExtraQueries == {"[a=al]+[b=al][c=tea]", "[a=(x]][b=y]", "[a=(x]+[b=y]]", " \t ",
                 "[a=al] * [b=al]", "[b=(shop)]", "[a=al]-[b=bo]+[b=bo]",
                 "[;a=al]", "[a=al;;b=al]", "[a=al;b=al]",
                 "[a=,al]", "[a=al,]", "[a=zz,]", "[a=zz,al]", "[x=\"]", "[a=\"al\"]"}

DateQueries == {"[d=noiembrie 2019]", "(d > noi 2019; d < dec 2019]", "[d=2019]",
                "[d=05.11.2019]", "[d=5 noiembrie 2019]", "[d>2019-11-05]", "[d=dec]",
                "[d=1 dec]", "(d<2019-12-01)", "[c=ja^m]"}

\* date conditions whose value names a month no locale lists, or a year outside
\* (_MIN_YEAR, the current year]
UnresolvedQueries == {"[d=noiembrie]", "[d>noiembrie]", "[d<noiembrie]", "(d>noiembrie)",
                      "[d=noiembrie 2019]", "[d=1900]", "[d>1900]", "[d<1900]", "(d<1900)",
                      "[d=2030]", "[d>2030]", "(d>2030)"}

\* the values of the interval queries with their first and last day
IntervalDays ==
    ("noi 2019" :> [first |-> DateUnix(2019, 11, 1), last |-> DateUnix(2019, 11, 30)])
        @@ ("2019-11-05" :> [first |-> DateUnix(2019, 11, 5), last |-> DateUnix(2019, 11, 5)])
        @@ ("dec 2019" :> [first |-> DateUnix(2019, 12, 1), last |-> DateUnix(2019, 12, 31)])
        @@ ("2019-12-01" :> [first |-> DateUnix(2019, 12, 1), last |-> DateUnix(2019, 12, 1)])

IntervalQuery(open, X, Y, close) == open \o "d > " \o X \o "; d < " \o Y \o close

IntervalQueries ==
    {IntervalQuery(open, X, Y, close) :
        open \in {_OP_SQ, _OP_RD}, X \in {"noi 2019", "2019-11-05"},
        Y \in {"dec 2019", "2019-12-01"}, close \in {_CL_SQ, _CL_RD}}

Input(r, text, lc) == [rows |-> r, q |-> text, locale |-> lc]

IngestInputs == {Input(<<row>>, "", L0) : row \in IngestRows}

FormulaInputs ==
    {Input(r, text, L0) : r \in SeqsUpTo(QueryRows, MaxRows), text \in Chains(Formulas, 2)}

ChainInputs == {Input(<<R1, R2, R4>>, text, L0) : text \in Chains(ChainFormulas, MaxFormulas)}

RawInputs == {Input(<<R1, R2>>, text, L0) : text \in RawQueries \cup ExtraQueries}

DateInputs == {Input(<<R2, R3, R1>>, text, L1) : text \in DateQueries \cup IntervalQueries}

UnresolvedInputs == {Input(<<R2, R3, R1>>, text, L0) : text \in UnresolvedQueries}

KeyInputs == {Input(<<R5, R6>>, text, L0) : text \in {"[a=zz] + []", "[]-[b=c]", "[a=a]"}}

Inputs ==
    KeyInputs \cup IngestInputs \cup FormulaInputs \cup ChainInputs \cup RawInputs \cup DateInputs
        \cup UnresolvedInputs

\* the formulas of the queries that are asked twice of one collection
PairFormulas == {"[a=al]", "[b=al]", "[z<0]"}

Plus(A, B) == A \o " + " \o B

PairQueries == {Plus(A, B) : A \in PairFormulas, B \in PairFormulas}

\* the queries that are asked twice of one collection
AgainQueries == PairQueries \cup {"[]-(s>5)"}

\* Filter is called again on the collection, with its locals fresh; what the
\* call before returned is kept in prev
Again ==
    /\ pc = "returned"
    /\ ~prev.called
    /\ q \in AgainQueries
    /\ prev' = [q |-> q, ret |-> ret, called |-> TRUE]
    /\ q' \in AgainQueries
    /\ stack' = <<>>
    /\ mem' = <<>>
    /\ results' = <<>>
    /\ shares' = FALSE
    /\ i' = 0
    /\ ret' = NoReturn
    /\ pc' = "ready"
    /\ UNCHANGED <<locale, iter, now, rows, n, collection, c>>

InitWith(input) ==
    /\ locale = input.locale
    /\ iter \in KeyOrders(input.locale)
    /\ now = Today
    /\ rows = input.rows
    /\ n = 0
    /\ collection = <<>>
    /\ c = <<>>
    /\ q = input.q
    /\ stack = <<>>
    /\ mem = <<>>
    /\ results = <<>>
    /\ shares = FALSE
    /\ i = 0
    /\ ret = NoReturn
    /\ prev = NoCall
    /\ pc = "new"

Init == \E input \in Inputs : InitWith(input)

Next ==
    \/ NewRow
    \/ NewReturn
    \/ FilterCompile
    \/ FilterFirst
    \/ FilterStep
    \/ FilterSort
    \/ Again

Spec == Init /\ [][Next]_vars

-----------------------------------------------------------------------------
(* Properties of Filter's results                                          *)

\* Filter has returned (it did not panic, and New did not)
Returned == pc = "returned"

\* Filter has returned a result and a nil error
ReturnedNil == pc = "returned" /\ ret.err = ""

\* the query holds nothing but whitespace
Blank(text) == \A k \in 0..(Len(text) - 1) : At(text, k) \in Whitespace

\* date descending, and amount ascending within one date
Ordered(records) ==
    \A k \in 1..(Len(records) - 1) :
        \/ records[k].Date > records[k + 1].Date
        \/ records[k].Date = records[k + 1].Date /\ records[k].Amount <= records[k + 1].Amount

\* how many times r stands in records
Times(records, r) == Cardinality({k \in DOMAIN records : records[k] = r})

\* the same records, each as many times
SameBag(left, right) ==
    /\ Len(left) = Len(right)
    /\ \A k \in DOMAIN left : Times(left, left[k]) = Times(right, left[k])

\* C1 as amended: every result Filter returns with a nil error for a query
\* that holds more than whitespace is ordered by date descending, and by
\* amount ascending within one date.
C1_NonEmptyQueryResultIsOrdered ==
    (ReturnedNil /\ ~Blank(q)) => Ordered(ret.results)

\* a non-empty query's result in which sorting moved records, with two dates
\* and with two amounts on one date
C1_Witness ==
    /\ ReturnedNil
    /\ ~Blank(q)
    /\ ret.results # c
    /\ SameBag(ret.results, c)
    /\ \E k \in 1..(Len(ret.results) - 1) :
           ret.results[k].Date > ret.results[k + 1].Date
    /\ \E k \in 1..(Len(ret.results) - 1) :
           /\ ret.results[k].Date = ret.results[k + 1].Date
           /\ ret.results[k].Amount < ret.results[k + 1].Amount

\* C1 as stated: every result Filter returns with a nil error, the empty
\* query's included, is ordered by date descending, and by amount ascending
\* within one date.
C1_EveryResultIsOrdered == ReturnedNil => Ordered(ret.results)

\* the call of Filter is over: it returned, or it panicked (New panics before
\* it has read every row)
FilterOver == pc = "returned" \/ (pc = "panic" /\ n = Len(rows))

\* what the formula token t keeps of records
MatchesOf(t, records) == query(records, prepare(Scope(t), t.value).filters).out

\* the stack of a query formula operator formula
IsPair(stk, operator) ==
    /\ Len(stk) = 3
    /\ IsFormula(stk[1])
    /\ ~IsFormula(stk[2])
    /\ stk[2].value = operator
    /\ IsFormula(stk[3])

\* two queries A + B and B + A
Swapped(left, right) ==
    \E A \in PairFormulas, B \in PairFormulas : left = Plus(A, B) /\ right = Plus(B, A)

\* every record of matches once, and nothing else
OncePerKey(records, matches) ==
    /\ \A k \in DOMAIN records : \E j \in DOMAIN matches : matches[j] = records[k]
    /\ \A j \in DOMAIN matches : Times(records, matches[j]) = 1
    /\ \A j, k \in DOMAIN records :
           RecordString(records[j]) = RecordString(records[k]) => j = k

\* C2: union is commutative modulo ordering and idempotent under canonical-key
\* dedup: on one collection A + B and B + A return the same multiset of
\* records, and A + A returns the matches of A, one record per canonical key.
C2_UnionCommutesAndIsIdempotent ==
    ReturnedNil =>
        /\ (prev.called /\ prev.ret.err = "" /\ Swapped(prev.q, q))
               => SameBag(prev.ret.results, ret.results)
        /\ (IsPair(stack, _UNION) /\ stack[1] = stack[3])
               => OncePerKey(ret.results, MatchesOf(stack[1], c))

\* the records that the formula token t does not match, as many times as in records
Unmatched(records, t) == SelectSeq(records, LAMBDA r : Len(MatchesOf(t, <<r>>)) = 0)

\* C3: the result of A - B is the result of A with exactly the records removed
\* that B matches; every record of A that B does not match is in the result as
\* many times as in the result of A.
C3_DifferenceRemovesExactlyTheMatched ==
    (ReturnedNil /\ IsPair(stack, _DIFF))
        => SameBag(ret.results, Unmatched(MatchesOf(stack[1], c), stack[3]))

\* two formula tokens with nothing between them
AdjacentFormulas(stk) ==
    \E k \in 1..(Len(stk) - 1) : IsFormula(stk[k]) /\ IsFormula(stk[k + 1])

\* C4: for every query that compiles to two formulas with nothing between them
\* Filter returns an error value and never aborts.
C4_OutOfPositionIsAnError ==
    (FilterOver /\ AdjacentFormulas(stack)) => (pc = "returned" /\ ret.err # "")

\* formulas that hold a condition outside the comparator table, or one the
\* condition pattern does not match, with the error of that condition
InvalidCondition ==
    ("[a>al]" :> "header a? 62") @@ ("[d:x]" :> "unsupported header: 0")
        @@ ("[b=zz;z=0]" :> "header z? 61")

\* C5: for every collection, empty or not, a formula that holds an invalid
\* condition, wherever it stands among the formula's conditions, makes Filter
\* return the error of that condition and no records.
C5_InvalidConditionIsAnError ==
    (FilterOver /\ q \in DOMAIN InvalidCondition)
        => (pc = "returned" /\ ret = [results |-> <<>>, err |-> InvalidCondition[q]])

\* C6: an empty query (empty or whitespace only) is not an error: Filter
\* returns the collection unchanged, the same records in the same order.
C6_EmptyQueryReturnsTheCollection ==
    (FilterOver /\ Blank(q))
        => (pc = "returned" /\ ret = [results |-> collection, err |-> ""] /\ c = collection)

\* a whitespace-only query asked of a collection whose order is not the sorted one
C6_Witness ==
    /\ Returned
    /\ Len(q) > 0
    /\ Blank(q)
    /\ Len(c) >= 2
    /\ ~Ordered(c)
    /\ ret.results = c

\* one formula whose body holds nothing but whitespace
EmptyBodied(text) ==
    LET t == TrimSpace(text)
    IN  /\ Len(t) >= 2
        /\ At(t, 0) \in {_OP_SQ, _OP_RD}
        /\ At(t, Len(t) - 1) \in {_CL_SQ, _CL_RD}
        /\ Blank(Slice(t, 1, Len(t) - 1))

\* a stands before b in the order of the results
Precedes(a, b) == a.Date > b.Date \/ (a.Date = b.Date /\ a.Amount < b.Amount)

\* where the k-th input record stands once the input is sorted stably
Rank(input, k) ==
    1 + Cardinality({j \in DOMAIN input :
                        \/ Precedes(input[j], input[k])
                        \/ ~Precedes(input[k], input[j]) /\ j < k})

\* output is input sorted stably
StablySorted(input, output) ==
    /\ Len(output) = Len(input)
    /\ \A k \in DOMAIN input : output[Rank(input, k)] = input[k]

\* C7 as amended: a query made of one formula with an empty body returns,
\* without error, every record of the input, ordered by date descending and
\* amount ascending, records equal in both in their input order.
C7_EmptyFormulaReturnsTheInputSorted ==
    (FilterOver /\ EmptyBodied(q))
        => (pc = "returned" /\ ret.err = "" /\ StablySorted(c, ret.results))

\* an empty formula asked of a collection that it returns in another order
C7_Witness ==
    /\ ReturnedNil
    /\ EmptyBodied(q)
    /\ Len(c) >= 2
    /\ ret.results # c
    /\ StablySorted(c, ret.results)

\* C7 as stated: a query made of one formula with an empty body returns the
\* same records in the same order as the input.
C7_EmptyFormulaReturnsTheInputUnchanged ==
    (FilterOver /\ EmptyBodied(q)) => (pc = "returned" /\ ret = [results |-> c, err |-> ""])

-----------------------------------------------------------------------------
(* Properties of New                                                       *)

\* the row's label is a compound one
IsCompound(row) == Contains(row[3], OPT_SEPARATOR)

\* how many records New emits for a row
ItemCount(row) == IF IsCompound(row) THEN Len(Split(row[3], OPT_SEPARATOR)) ELSE 1

\* how many records New has emitted for the rows before the k-th
RECURSIVE EmittedBefore(_)
EmittedBefore(k) == IF k <= 1 THEN 0 ELSE EmittedBefore(k - 1) + ItemCount(rows[k - 1])

\* the records New emitted for the k-th row
Emitted(k) == SubSeq(collection, EmittedBefore(k) + 1, EmittedBefore(k) + ItemCount(rows[k]))

RECURSIVE Total(_)
Total(records) == IF Len(records) = 0 THEN 0 ELSE Head(records).Amount + Total(Tail(records))

\* the amount column of a row, in cents
RowAmount(row) == mustParseAmount(row, 4).val

\* the amount that leads the j-th sub-item of a compound label
SubAmount(row, j) ==
    mustParseAmount(SplitN2(clean(Split(row[3], OPT_SEPARATOR)[j]), " "), 0).val

\* C8: for every ingested row with a compound label the amounts of the records
\* emitted for its sub-items, each the sub-item's amount with the sign of the
\* row total applied, sum to the row's amount; a row whose sum differs is
\* never ingested: New panics at it and returns no collection.
C8_CompoundRowAddsUp ==
    /\ \A k \in 1..n :
           IsCompound(rows[k]) =>
               /\ Total(Emitted(k)) = RowAmount(rows[k])
               /\ \A j \in 1..ItemCount(rows[k]) :
                      Emitted(k)[j].Amount
                          = SubAmount(rows[k], j) * (IF RowAmount(rows[k]) < 0 THEN -1 ELSE 1)
    /\ pc \notin {"new", "panic"} => (n = Len(rows) /\ c = collection)
    /\ (pc = "panic" /\ n < Len(rows)) => c = <<>>

\* New has returned a collection read from a compound row of two sub-items
\* whose total is negative
C8_Witness ==
    /\ pc = "ready"
    /\ \E k \in 1..n :
           /\ IsCompound(rows[k])
           /\ Len(Emitted(k)) = 2
           /\ RowAmount(rows[k]) < 0
           /\ Emitted(k)[1].Amount < 0

-----------------------------------------------------------------------------
(* Properties of compile                                                   *)

\* the number of opening brackets differs from the number of closing ones
Unbalanced(text) ==
    Count(text, "[") + Count(text, "(") # Count(text, "]") + Count(text, ")")

BracketMismatch == "number of opened paranthesis don't match with closed ones"

\* C9: for every non-empty query in which the number of [ plus ( differs from
\* the number of ] plus ), Filter returns the bracket-mismatch error and no
\* records, whatever the rest of the query is.
C9_UnbalancedQueryIsRejected ==
    (FilterOver /\ ~Blank(q) /\ Unbalanced(q))
        => (pc = "returned" /\ ret = [results |-> <<>>, err |-> BracketMismatch])

\* an unbalanced query that starts with a well-formed formula, asked of a
\* collection that holds records
C9_Witness ==
    /\ Returned
    /\ Unbalanced(q)
    /\ HasPrefix(q, "[a=al]")
    /\ Len(c) > 0
    /\ ret.err = BracketMismatch

\* the body of the query's first formula, up to the first closing bracket
\* (the query starts with an opening bracket and holds a closing one)
FirstBody(text) ==
    clean(Slice(text, 1, FirstOf(IndexRune(text, _CL_SQ), IndexRune(text, _CL_RD))))

\* the query's first formula holds another opening bracket before its first
\* closing bracket
NestedFirst(text) ==
    /\ Len(text) > 0
    /\ At(text, 0) \in {_OP_SQ, _OP_RD}
    /\ Contains(text, _CL_SQ) \/ Contains(text, _CL_RD)
    /\ Contains(FirstBody(text), _OP_SQ) \/ Contains(FirstBody(text), _OP_RD)

\* C10: for every bracket-balanced query in which a formula body holds another
\* opening bracket before the formula's first closing bracket (here: the body
\* of the query's first formula), Filter fails with the nested-parenthesis
\* error naming that body.
C10_NestedBracketIsReported ==
    (FilterOver /\ ~Unbalanced(q) /\ NestedFirst(clean(q)))
        => /\ pc = "returned"
           /\ ret.err = "unsupported nested paranthesis in " \o FirstBody(clean(q))

-----------------------------------------------------------------------------
(* Properties of the date conditions                                       *)

\* C11: a date condition whose value does not resolve to a date (a month name
\* when no month list is configured, a bare year outside (1922, current
\* year]) matches no record and is not an error, for each of =, > and <.
C11_UnresolvedDateMatchesNothing ==
    (FilterOver /\ q \in UnresolvedQueries /\ Len(locale.Months) = 0)
        => (pc = "returned" /\ ret = [results |-> <<>>, err |-> ""])

-----------------------------------------------------------------------------
(* Frame and selection properties of Filter                                *)

\* C12: Filter does not mutate the collection it is called on: during and
\* after every call, successful or failing, the collection holds the records
\* that New returned, in the same order.
C12_FilterLeavesTheCollection == (pc # "new" /\ n = Len(rows)) => c = collection

\* a query with a difference whose sorted result differs from the collection,
\* which is as New returned it
C12_Witness ==
    /\ ReturnedNil
    /\ IsPair(stack, _DIFF)
    /\ Len(ret.results) >= 2
    /\ ~Ordered(c)
    /\ Ordered(ret.results)
    /\ c = collection

\* formula bodies with an empty condition, and the body that holds their
\* non-empty conditions only
WithoutEmptyConditions ==
    ("[;a=al]" :> "a=al") @@ ("[a=al;;b=al]" :> "a=al;b=al")

\* the token of the formula [body]
SquareFormula(body) == [value |-> body, flags |-> 3, class |-> 1]

\* C13: every non-empty condition of a formula body constrains the result,
\* wherever it stands: a formula with an empty condition returns what the
\* formula of its non-empty conditions returns.
C13_EmptyConditionHidesNothing ==
    (FilterOver /\ q \in DOMAIN WithoutEmptyConditions)
        => /\ pc = "returned"
           /\ ret.err = ""
           /\ SameBag(ret.results, MatchesOf(SquareFormula(WithoutEmptyConditions[q]), c))

\* the date meets the lower bound X under the opening bracket and the upper
\* bound Y under the closing bracket
InInterval(date, open, X, Y, close) ==
    /\ IF open = _OP_SQ THEN date >= IntervalDays[X].first ELSE date > IntervalDays[X].last
    /\ IF close = _CL_SQ THEN date <= IntervalDays[Y].last ELSE date < IntervalDays[Y].first

\* C14: in a formula with body d > X; d < Y the opening bracket alone decides
\* the lower bound ([ on or after the first day of X, ( after its last day)
\* and the closing bracket alone the upper bound (] on or before the last day
\* of Y, ) before its first day); the result is exactly the records that meet
\* both bounds.
C14_BracketsDecideTheBounds ==
    (FilterOver /\ q \in IntervalQueries) =>
        \A open \in {_OP_SQ, _OP_RD}, close \in {_CL_SQ, _CL_RD} :
            \A X \in {"noi 2019", "2019-11-05"}, Y \in {"dec 2019", "2019-12-01"} :
                q = IntervalQuery(open, X, Y, close) =>
                    /\ pc = "returned"
                    /\ ret.err = ""
                    /\ SameBag(ret.results,
                               SelectSeq(c, LAMBDA r : InInterval(r.Date, open, X, Y, close)))

\* an interval open on the left and closed on the right that keeps some records
\* of the collection and drops others
C14_Witness ==
    /\ ReturnedNil
    /\ q \in IntervalQueries
    /\ At(q, 0) = _OP_RD
    /\ At(q, Len(q) - 1) = _CL_SQ
    /\ Len(ret.results) >= 1
    /\ Len(ret.results) < Len(c)

\* the canonical keys of records
Keys(records) == {RecordString(records[k]) : k \in DOMAIN records}

\* the keys after one step of the fold: + adds the keys of the input records
\* that the formula matches, - removes the keys of the records so far that it
\* matches
FoldStep(keys, operator, formula) ==
    IF operator.value = _UNION
    THEN keys \cup Keys(MatchesOf(formula, c))
    ELSE keys \ Keys(SelectSeq(MatchesOf(formula, c), LAMBDA r : RecordString(r) \in keys))

\* the left fold over the tokens 1..k of the stack, k odd
RECURSIVE FoldKeys(_)
FoldKeys(k) ==
    IF k <= 1 THEN Keys(MatchesOf(stack[1], c))
    ELSE FoldStep(FoldKeys(k - 2), stack[k - 1], stack[k])

\* formula (operator formula)* with the operators + and -
WellFormed(stk) ==
    /\ Len(stk) % 2 = 1
    /\ \A k \in DOMAIN stk :
           IF k % 2 = 1 THEN IsFormula(stk[k])
           ELSE ~IsFormula(stk[k]) /\ stk[k].value \in {_UNION, _DIFF}

\* C15: the set operators are applied strictly left to right: the canonical
\* keys of the result of a query that succeeds are the left fold over its
\* formulas, + adding the keys of the input records the formula matches, -
\* removing the keys of the current result's records it matches.
C15_OperatorsFoldLeftToRight ==
    (ReturnedNil /\ Len(stack) > 0 /\ WellFormed(stack))
        => Keys(ret.results) = FoldKeys(Len(stack))

\* A - B + B has returned the input records that B matches, which A - B dropped
C15_Witness ==
    /\ ReturnedNil
    /\ Len(stack) = 5
    /\ stack[2].value = _DIFF
    /\ stack[4].value = _UNION
    /\ stack[3] = stack[5]
    /\ Len(MatchesOf(stack[3], c)) > 0
    /\ Keys(MatchesOf(stack[3], c)) \subseteq Keys(MatchesOf(stack[1], c))
    /\ Keys(MatchesOf(stack[3], c)) \subseteq Keys(ret.results)

\* C16: Filter returns either a collection or an error, never both: whenever
\* it returns a non-nil error the returned collection is empty.
C16_ErrorComesWithoutRecords == (Returned /\ ret.err # "") => ret.results = <<>>

\* C17: the canonical key is injective on records: two records of a
\* collection with the same canonical string agree on sender, receiver, label,
\* date and amount, so a union keeps every input record that its formula
\* matches.
C17_CanonicalKeyIsInjective ==
    /\ \A j, k \in DOMAIN c : RecordString(c[j]) = RecordString(c[k]) => c[j] = c[k]
    /\ (ReturnedNil /\ IsPair(stack, _UNION))
           => \A k \in DOMAIN c :
                  Len(MatchesOf(stack[3], <<c[k]>>)) > 0
                      => \E j \in DOMAIN ret.results : ret.results[j] = c[k]

-----------------------------------------------------------------------------
(* Properties of the text comparators                                      *)

\* C18: text matching is total: for a query of one formula, whatever the
\* alternatives of its text conditions (an empty alternative, an alternative
\* that is the single character "), Filter returns a result or an error value;
\* it never aborts.
C18_TextMatchingNeverAborts ==
    (FilterOver /\ Len(stack) = 1) => pc = "returned"

-----------------------------------------------------------------------------
(* Properties of two calls                                                 *)

\* C19: Filter is deterministic: two evaluations of the same query on the
\* same collection under the same locale return the same sequence of records
\* and the same error.
C19_SameQuerySameResult ==
    (Returned /\ prev.called /\ prev.q = q) => ret = prev.ret

-----------------------------------------------------------------------------
(* Selection                                                               *)

\* every record of part is a record of whole and stands in part at most as
\* many times as in whole
Selects(part, whole) ==
    \A k \in DOMAIN part : Times(part, part[k]) <= Times(whole, part[k])

\* C20: Filter only selects: after the first formula, after every + or - step
\* and in what Filter returns, every record of the result is a record of the
\* input collection and occurs at most as many times as in the input.
C20_FilterOnlySelects ==
    /\ pc \in {"loop", "returned"} => Selects(results, c)
    /\ Returned => Selects(ret.results, c)

\* a union whose two formulas match a common record has returned some, not
\* all, records of the collection
C20_Witness ==
    /\ ReturnedNil
    /\ IsPair(stack, _UNION)
    /\ Len(ret.results) >= 1
    /\ Len(ret.results) < Len(c)
    /\ \E k \in DOMAIN c :
           /\ Len(MatchesOf(stack[1], <<c[k]>>)) > 0
           /\ Len(MatchesOf(stack[3], <<c[k]>>)) > 0

====
